---- MODULE Spec2Model ----
(***************************************************************************)
(* Grocery Price Tracker (src/app.py).                                     *)
(*                                                                         *)
(* One Streamlit run of app() is one step: it reads the whole worksheet,   *)
(* builds the catalog (read_prices_from_sheet), filters and ranks it for   *)
(* the current search widgets, and, when a form button was pressed,        *)
(* rewrites the whole worksheet (set_with_dataframe).                      *)
(*                                                                         *)
(* The worksheet is a sequence of rows of strings; row 1 is the header.    *)
(* Python's 0-based subscripts are 1-based here: row[0] is row[1],         *)
(* row[5 + i] for i in range(len(row) - 5) is row[5 + i] for i in          *)
(* 1..Len(row) - 5.                                                        *)
(***************************************************************************)
EXTENDS Integers, Sequences, FiniteSets, TLC

VARIABLES
    sheet,           \* the worksheet: get_all_values(), header first
    writes,          \* number of set_with_dataframe calls issued so far
    prices,          \* the catalog of the last run: ordered <<[k, items]>>
    status,          \* "init" before the first run, then how the last run
                     \* ended: "ok" or the exception raised
    selected_item,   \* st.selectbox value
    selected_tags,   \* st.multiselect value (a duplicate-free list)
    searched,        \* TRUE iff the last run took the else branch of line 158
    filtered_items,  \* line 189-198
    cheapest_items,  \* line 200
    other_items,     \* line 201
    submitted,       \* the button pressed in the last run ("" for none)
    shown,           \* st.error / st.success messages of the last run
    sheet0,          \* the worksheet as it was when the last run started
    writes0          \* the write count when the last run started

vars == <<sheet, writes, prices, status, selected_item, selected_tags, searched,
          filtered_items, cheapest_items, other_items, submitted, shown,
          sheet0, writes0>>

----------------------------------------------------------------------------
(* Bounds of the model *)

\* most data rows of an initial worksheet of SpecSearch
MaxRows == 2

\* most worksheet writes in one behaviour of Spec
MaxWrites == 2

----------------------------------------------------------------------------
(* Strings and numbers *)

Range(s) == {s[k] : k \in 1..Len(s)}

\* float(s) on the numeric strings that occur in a cell
Float(s) ==
    CASE s = "0" -> 0
      [] s = "1" -> 1
      [] s = "2" -> 2
      [] s = "-1" -> -1

\* int(s) on the numeric strings that occur in the Denominator column
IntOf(s) ==
    CASE s = "1" -> 1
      [] s = "2" -> 2

\* str.split("|") on the option strings that occur in the Options column;
\* the empty string splits into one empty tag
Split(s) ==
    CASE s = "" -> <<"">>
      [] s = "a" -> <<"a">>
      [] s = "b" -> <<"b">>
      [] s = "a|b" -> <<"a", "b">>

\* str.strip() on the strings typed into the forms
Strip(s) ==
    CASE s = " " -> ""
      [] s = " Lidl " -> "Lidl"
      [] s = " Aldi" -> "Aldi"
      [] s = " a" -> "a"
      [] OTHER -> s

\* bool(s) of a string: the empty string is falsy
Truthy(s) == s # ""

Abs(n) == IF n < 0 THEN -n ELSE n

RECURSIVE GCD(_, _)
GCD(a, b) == IF b = 0 THEN a ELSE GCD(b, a % b)

\* n / d as a reduced fraction <<numerator, denominator>>, denominator > 0.
\* The cells hold small integers, so price * denominator is exact and the
\* float quotient of two pairs is equal iff the fractions are equal.
Fraction(n, d) ==
    LET g == GCD(Abs(n), Abs(d))
        s == IF d < 0 THEN -1 ELSE 1
    IN  <<(s * n) \div g, (s * d) \div g>>

\* a < b on fractions with positive denominators
FracLess(a, b) == a[1] * b[2] < b[1] * a[2]

----------------------------------------------------------------------------
(* GroceryPrice *)

\* __post_init__: self.unit_price = self.price * self.denominator / self.size
\* (raises ZeroDivisionError when size = 0, see ZeroDivision below)
UnitPrice(price, denominator, size) == Fraction(price * denominator, size)

GroceryPrice(name, tags, size, denominator, unit, branch, price) ==
    [name |-> name, tags |-> tags, size |-> size, denominator |-> denominator,
     unit |-> unit, branch |-> branch, price |-> price,
     unit_price |-> UnitPrice(price, denominator, size)]

----------------------------------------------------------------------------
(* read_prices_from_sheet *)

\* the code reads every column from index 5 on as a branch column
NonBranchCols == 5

\* the dict `prices`, in insertion order
Keys(d) == {d[k].k : k \in 1..Len(d)}
Items(d, key) == (CHOOSE k \in 1..Len(d) : d[k].k = key)

\* a header read without the offset of the non-branch columns
BranchOfNoOffset(header, i) == header[i]

\* line 75: branch=header[5 + i]
BranchOf(header, i) == header[NonBranchCols + i]

\* the inner loop, line 66-78: one record per non-blank cell, column order
RECURSIVE AppendPrices(_, _, _, _)
AppendPrices(items, header, row, i) ==
    IF i > Len(row) - NonBranchCols THEN items
    ELSE AppendPrices(
            IF row[NonBranchCols + i] # ""
            THEN Append(items,
                    GroceryPrice(row[1], Split(row[2]), Float(row[3]),
                                 IntOf(row[4]), row[5],
                                 BranchOf(header, i),
                                 Float(row[NonBranchCols + i])))
            ELSE items,
            header, row, i + 1)

\* the outer loop, line 61-78
RECURSIVE ReadRows(_, _, _)
ReadRows(d, header, rows) ==
    IF rows = <<>> THEN d
    ELSE LET row == Head(rows)
             grocery_item == row[1]
             d1 == IF grocery_item \notin Keys(d)
                   THEN Append(d, [k |-> grocery_item, items |-> <<>>])
                   ELSE d
             at == Items(d1, grocery_item)
             d2 == [d1 EXCEPT ![at].items = AppendPrices(@, header, row, 1)]
         IN  ReadRows(d2, header, Tail(rows))

\* GroceryPrice(...) divides by size: the first priced cell of a row whose
\* size is zero raises ZeroDivisionError and the whole load fails
ZeroDivision(data) ==
    \E r \in 2..Len(data) :
        /\ \E c \in (NonBranchCols + 1)..Len(data[r]) : data[r][c] # ""
        /\ Float(data[r][3]) = 0

read_prices_from_sheet(data) == ReadRows(<<>>, data[1], Tail(data))

----------------------------------------------------------------------------
(* search: filter and rank, line 158-201 *)

\* np.intersect1d: the unique common values (numpy returns them sorted; only
\* their number is used)
Intersect1d(ar1, ar2) == Range(ar1) \cap Range(ar2)

\* OR semantics: one common tag is enough
KeepItemAny(item, tags) == Cardinality(Intersect1d(item.tags, tags)) >= 1

\* line 196-198
KeepItem(item, tags) == Cardinality(Intersect1d(item.tags, tags)) = Len(tags)

\* line 191: the group is skipped
SkipGroup(k, item) == (item # "") /\ (k # item)

\* line 189-198
RECURSIVE FilterItems(_, _, _, _)
FilterItems(acc, d, item, tags) ==
    IF d = <<>> THEN acc
    ELSE LET e == Head(d)
             acc1 == IF SkipGroup(e.k, item) THEN acc
                     ELSE IF tags = <<>> THEN acc \o e.items
                     ELSE acc \o SelectSeq(e.items, LAMBDA it : KeepItem(it, tags))
         IN  FilterItems(acc1, Tail(d), item, tags)

\* line 113-114; sorted_list[0] is evaluated once per element, so never on an
\* empty list
get_cheapest_item_from_sorted(sorted_list) ==
    SelectSeq(sorted_list, LAMBDA i : i.unit_price = sorted_list[1].unit_price)

\* sorted_list[0] hoisted out of the comprehension: evaluated on every list
CheapestIndexErrorHoisted(sorted_list) == Len(sorted_list) = 0

\* sorted_list[0] raises IndexError iff it is evaluated on an empty list
CheapestIndexError(sorted_list) ==
    \E k \in 1..Len(sorted_list) : Len(sorted_list) = 0

\* filtered_items[len(cheapest_items) - 1:], a slice that starts one early
\* (a start of -1 is the last element)
OtherItemsOneEarly(filtered, cheapest) ==
    IF filtered = <<>> THEN <<>>
    ELSE IF cheapest = <<>> THEN <<filtered[Len(filtered)]>>
    ELSE SubSeq(filtered, Len(cheapest), Len(filtered))

\* line 201: filtered_items[len(cheapest_items):]
OtherItems(filtered, cheapest) ==
    SubSeq(filtered, Len(cheapest) + 1, Len(filtered))

\* line 158
Welcome(item, tags) == (~Truthy(item)) /\ (tags = <<>>)

----------------------------------------------------------------------------
(* One run of app() *)

\* line 143-201: load the catalog, then filter and rank for the widgets'
\* values.  An exception ends the run.
SearchStep(item, tags) ==
    LET d == read_prices_from_sheet(sheet)
        f == FilterItems(<<>>, d, item, tags)
        c == get_cheapest_item_from_sorted(f)
        none == /\ searched' = FALSE
                /\ filtered_items' = <<>>
                /\ cheapest_items' = <<>>
                /\ other_items' = <<>>
    IN  /\ selected_item' = item
        /\ selected_tags' = tags
        /\ IF ZeroDivision(sheet)
           THEN status' = "ZeroDivisionError" /\ prices' = <<>> /\ none
           ELSE /\ prices' = d
                /\ IF Welcome(item, tags)
                   THEN status' = "ok" /\ none
                   ELSE IF CheapestIndexError(f)
                   THEN status' = "IndexError" /\ none
                   ELSE /\ status' = "ok"
                        /\ searched' = TRUE
                        /\ filtered_items' = f
                        /\ cheapest_items' = c
                        /\ other_items' = OtherItems(f, c)

\* a run started by changing the search widgets: no button is pressed
Search(item, tags) ==
    /\ SearchStep(item, tags)
    /\ submitted' = ""
    /\ shown' = <<>>
    /\ sheet0' = sheet
    /\ writes0' = writes
    /\ UNCHANGED <<sheet, writes>>

\* set_with_dataframe(worksheet, df): the whole worksheet is replaced
SetWithDataframe(df, msgs) ==
    /\ sheet' = df
    /\ writes' = writes + 1
    /\ shown' = Append(msgs, "Sheet updated successfully!")
    /\ sheet0' = sheet
    /\ writes0' = writes

Blanks(n) == [k \in 1..n |-> ""]

\* line 250-260: the dataframe the new_item_form leaves in df
NewItemDf(df, name, options, size, denominator, unit) ==
    IF ~Truthy(name) THEN df
    ELSE IF ~Truthy(unit) THEN df
    ELSE Append(df, <<name, Strip(options), size, denominator, unit>>
                    \o Blanks(Len(df[1]) - 5))

NewItemErrors(name, unit) ==
    IF ~Truthy(name) THEN <<"Item name cannot be empty!">>
    ELSE IF ~Truthy(unit) THEN <<"Unit cannot be empty!">>
    ELSE <<>>

\* line 241-264: a run in which the new_item_form's button was pressed.  The
\* forms are reached only when the load and the search raised nothing.
AddItem(name, options, size, denominator, unit) ==
    /\ writes < MaxWrites
    /\ ~ZeroDivision(sheet)
    /\ SearchStep(selected_item, selected_tags)
    /\ submitted' = "new_item_form"
    /\ SetWithDataframe(NewItemDf(sheet, name, options, size, denominator, unit),
                        NewItemErrors(name, unit))

\* line 271-276: the dataframe the new_branch_form leaves in df; a new column
\* of NaN is written as blank cells
NewBranchDf(df, name) ==
    IF ~Truthy(name) THEN df
    ELSE IF Strip(name) \in Range(df[1]) THEN df
    ELSE [r \in 1..Len(df) |->
            IF r = 1 THEN Append(df[1], Strip(Strip(name)))
            ELSE Append(df[r], "")]

NewBranchErrors(df, name) ==
    IF ~Truthy(name) THEN <<"Branch name cannot be empty!">>
    ELSE IF Strip(name) \in Range(df[1]) THEN <<"already exists!">>
    ELSE <<>>

\* line 266-280: a run in which the new_branch_form's button was pressed
AddBranch(name) ==
    /\ writes < MaxWrites
    /\ ~ZeroDivision(sheet)
    /\ SearchStep(selected_item, selected_tags)
    /\ submitted' = "new_branch_form"
    /\ SetWithDataframe(NewBranchDf(sheet, name), NewBranchErrors(sheet, name))

\* line 283-290: the table is editable; the run writes the edited table
SavePriceChange(r, c, v) ==
    /\ writes < MaxWrites
    /\ ~ZeroDivision(sheet)
    /\ r \in 2..Len(sheet)
    /\ c \in 1..Len(sheet[r])
    /\ SearchStep(selected_item, selected_tags)
    /\ submitted' = "save_table_button"
    /\ SetWithDataframe([sheet EXCEPT ![r][c] = v], <<>>)

----------------------------------------------------------------------------
(* Inputs *)

ItemChoices == {"", "Milk", "Eggs"}
TagChoices == {<<>>, <<"a">>, <<"a", "b">>}

Header == <<"Grocery Item", "Options", "Size", "Denominator", "Unit",
            "Tesco", "Aldi">>

\* the worksheet Spec starts from
SeedSheet ==
    << Header,
       <<"Milk", "a", "1", "1", "ml", "2", "1">>,
       <<"Rice", "a|b", "2", "1", "g", "2", "">>,
       <<"Milk", "a|b", "2", "1", "ml", "", "2">> >>

\* the data rows SpecSearch starts from
RowChoices ==
    { <<n, o, "1", "1", "g", p1, p2>> :
        n \in {"Milk", "Rice"}, o \in {"a", "a|b"},
        p1 \in {"", "2"}, p2 \in {"", "1", "2"} }

RECURSIVE SeqsUpTo(_, _)
SeqsUpTo(S, n) ==
    IF n = 0 THEN {<<>>}
    ELSE LET T == SeqsUpTo(S, n - 1)
         IN  T \cup {Append(t, x) : t \in T, x \in S}

SheetChoices == {<<Header>> \o rows : rows \in SeqsUpTo(RowChoices, MaxRows) \ {<<>>}}

SizeEdits == {"0", "-1"}
PriceEdits == {"", "1"}

InitWith(sheets, item, tags) ==
    /\ sheet \in sheets
    /\ writes = 0
    /\ prices = <<>>
    /\ status = "init"
    /\ selected_item = item
    /\ selected_tags = tags
    /\ searched = FALSE
    /\ filtered_items = <<>>
    /\ cheapest_items = <<>>
    /\ other_items = <<>>
    /\ submitted = ""
    /\ shown = <<>>
    /\ sheet0 = sheet
    /\ writes0 = 0

Init == InitWith({SeedSheet}, "", <<>>)

Next ==
    \/ \E item \in ItemChoices, tags \in TagChoices : Search(item, tags)
    \/ \E name \in {"", "Eggs"}, unit \in {"", "ml"} :
          AddItem(name, " a", "1", "1", unit)
    \/ \E name \in {"", " ", " Aldi", " Lidl "} : AddBranch(name)
    \/ \E r \in 2..Len(sheet), v \in SizeEdits : SavePriceChange(r, 3, v)
    \/ \E r \in 2..Len(sheet), c \in (NonBranchCols + 1)..Len(sheet[1]),
          v \in PriceEdits : SavePriceChange(r, c, v)

Spec == Init /\ [][Next]_vars

\* search alone: every bounded worksheet and every value of the search widgets
InitSearch ==
    /\ \E item \in ItemChoices, tags \in TagChoices :
          InitWith(SheetChoices, item, tags)

NextSearch == Search(selected_item, selected_tags)

SpecSearch == InitSearch /\ [][NextSearch]_vars

----------------------------------------------------------------------------
(* Properties *)

\* every record of the catalog, group after group
RECURSIVE Flatten(_)
Flatten(d) == IF d = <<>> THEN <<>> ELSE Head(d).items \o Flatten(Tail(d))

AllRecords == Flatten(prices)

\* the groups the item name restricts the search to
Restricted ==
    Flatten(SelectSeq(prices,
                      LAMBDA e : selected_item = "" \/ e.k = selected_item))

Superset(r) == Range(selected_tags) \subseteq Range(r.tags)

\* the least unit price of a non-empty list
MinUnitPrice(records) ==
    CHOOSE m \in {r.unit_price : r \in Range(records)} :
        \A r \in Range(records) : ~FracLess(r.unit_price, m)

Ranked == status = "ok" /\ searched

\* C1: for a non-empty filtered list in any order, cheapest_items is exactly
\* the records whose unit_price is the minimum over the whole list, ties
\* included.
C1_CheapestIsMinimum ==
    (Ranked /\ filtered_items # <<>>)
        => cheapest_items =
              SelectSeq(filtered_items,
                        LAMBDA r : r.unit_price = MinUnitPrice(filtered_items))

\* C2: other_items is exactly the filtered records that are not in
\* cheapest_items, in their original order; the two lists partition the input.
C2_OthersIsComplement ==
    Ranked
        => /\ other_items =
                SelectSeq(filtered_items,
                          LAMBDA r : r \notin Range(cheapest_items))
           /\ Len(cheapest_items) + Len(other_items) = Len(filtered_items)

\* C3: a new_branch_form submission rejected because the name already exists
\* issues no write: write count and worksheet are what they were before.
C3_DuplicateBranchNoWrite ==
    (submitted = "new_branch_form" /\ "already exists!" \in Range(shown))
        => (writes = writes0 /\ sheet = sheet0)

\* C4: a new_item_form submission rejected for a blank item name or a blank
\* unit issues no write: the write count is unchanged.
C4_BlankItemNoWrite ==
    (/\ submitted = "new_item_form"
     /\ \/ "Item name cannot be empty!" \in Range(shown)
        \/ "Unit cannot be empty!" \in Range(shown))
        => writes = writes0

\* C5: filtered_items is, in catalog order, exactly the records of the
\* restricted groups whose tags are a superset of the selected tags.
C5_FilterIsSuperset ==
    Ranked => filtered_items = SelectSeq(Restricted, Superset)

\* C5 witness: tags {a, b} are required, a record carrying only tag a is in
\* the restricted groups and is left out, and some record is kept.
C5_Witness ==
    /\ Ranked
    /\ selected_tags = <<"a", "b">>
    /\ \E k \in 1..Len(Restricted) : Restricted[k].tags = <<"a">>
    /\ filtered_items # <<>>
    /\ Len(filtered_items) < Len(Restricted)

\* C6: no loaded catalog holds a record with size <= 0, and every record's
\* unit_price is non-negative.
C6_LoadedSizesPositive ==
    status = "ok"
        => \A k \in 1..Len(AllRecords) :
              /\ AllRecords[k].size > 0
              /\ AllRecords[k].unit_price[1] >= 0

\* the priced cells of the rows of an item: <<row, column>> in the worksheet
\* the run has read
PricedCells(name) ==
    {<<r, c>> \in (2..Len(sheet0)) \X ((NonBranchCols + 1)..Len(sheet0[1])) :
        sheet0[r][1] = name /\ sheet0[r][c] # ""}

\* row order, then column order
CellBefore(p, q) == p[1] < q[1] \/ (p[1] = q[1] /\ p[2] < q[2])

CellRank(S, p) == Cardinality({q \in S : CellBefore(q, p)}) + 1

FirstRow(name) ==
    CHOOSE r \in 2..Len(sheet0) :
        /\ sheet0[r][1] = name
        /\ \A q \in 2..(r - 1) : sheet0[q][1] # name

NoMatch ==
    \A r \in 2..Len(sheet0) :
        \/ \A c \in (NonBranchCols + 1)..Len(sheet0[1]) : sheet0[r][c] = ""
        \/ selected_item # "" /\ sheet0[r][1] # selected_item
        \/ ~(Range(selected_tags) \subseteq Range(Split(sheet0[r][2])))

\* C8: after a successful load, a search that nothing matches (the item is
\* absent, or no record carries the tags) raises nothing and yields an empty
\* cheapest_items and an empty other_items.
C8_NoMatchIsEmpty ==
    (/\ status \in {"ok", "IndexError"}
     /\ ~Welcome(selected_item, selected_tags)
     /\ NoMatch)
        => /\ Ranked
           /\ cheapest_items = <<>>
           /\ other_items = <<>>

\* C8 witness: the catalog has records, yet none carries both selected tags.
C8_Witness ==
    /\ Ranked
    /\ AllRecords # <<>>
    /\ selected_item = ""
    /\ selected_tags = <<"a", "b">>
    /\ filtered_items = <<>>
    /\ cheapest_items = <<>>

\* C9: ranking cheapest_items again returns all of it as cheapest and
\* nothing as others.
C9_RankIdempotent ==
    Ranked
        => /\ get_cheapest_item_from_sorted(cheapest_items) = cheapest_items
           /\ OtherItems(cheapest_items,
                         get_cheapest_item_from_sorted(cheapest_items)) = <<>>

\* C9 witness: a ranking that left records out of cheapest_items, which
\* holds a tie.
C9_Witness ==
    /\ Ranked
    /\ Len(cheapest_items) >= 2
    /\ Len(cheapest_items) < Len(filtered_items)

\* C10: every branch column name of the worksheet's header is non-empty.
C10_BranchNamesNonEmpty ==
    \A c \in (NonBranchCols + 1)..Len(sheet[1]) : sheet[1][c] # ""

====
